---------------------------- MODULE Spec2Model ----------------------------
(***************************************************************************)
(* State-machine model of src/client/v2/portfolio.js: the deals page of    *)
(* the lego front-end.  The module-level variables of the script, the DOM  *)
(* nodes it writes, the localStorage slot "favorites" and the requests in  *)
(* flight are the state; every event listener is one action, and the       *)
(* continuation of an async listener after its await is the action that    *)
(* resolves the request.                                                   *)
(***************************************************************************)
EXTENDS Integers, Sequences, FiniteSets, TLC

VARIABLES
  scriptLoaded,       \* the top-level script ran to its end (listeners exist)
  domLoaded,          \* DOMContentLoaded has fired
  currentDeals,       \* line 32
  currentPagination,  \* line 33
  currentFilter,      \* line 36
  currentSort,        \* line 39
  favorites,          \* line 42
  stored,             \* localStorage slot "favorites"
  inflight,           \* fetches awaiting their response, oldest first
  budget,             \* number of fetches the run may still issue
  shownDeals,         \* #deals: the entries painted by renderDeals
  pageOptions,        \* #page-select: number of options
  pageSelectedIndex,  \* #page-select: selectedIndex (0-based, -1 = none)
  nbDeals,            \* #nbDeals
  idOptions,          \* #lego-set-id-select: the values after the placeholder
  idSelected,         \* #lego-set-id-select: selected value
  salesPanel,         \* the sales indicators and #sales-list
  lastEvent,          \* history: the listener step that produced this state
  beforeToggle,       \* history: favorites and stored before the last toggle
  stale,              \* history: currentDeals came from a page or size
                      \* request issued before one already applied
  toggled,            \* history: toggleFavorite has run at least once
  toggles,            \* history: favorites at startup and, for each id, the
                      \* parity of its toggles since (kept in the runs of
                      \* SpecLoad and SpecStars)
  argument,           \* the array passed to the engine function under test
  call,               \* the engine function called last and its inputs
  returned            \* the value that call returned

vars == <<scriptLoaded, domLoaded, currentDeals, currentPagination,
          currentFilter, currentSort, favorites, stored, inflight, budget,
          shownDeals, pageOptions, pageSelectedIndex, nbDeals, idOptions,
          idSelected, salesPanel, lastEvent, beforeToggle, stale, toggled,
          toggles, argument, call, returned>>

----------------------------------------------------------------------------
(* Bounds of the model                                                     *)

MaxRequests == 2        \* fetches issued in one run of Spec
MaxFetchRequests == 3   \* fetches issued in one run of SpecFetch
MaxLoadRequests == 1    \* fetches issued in one run of SpecLoad
MaxStarRequests == 2    \* fetches issued in one run of SpecStars
MaxStored == 1          \* length of the favorites array found at startup
MaxDeals == 3           \* length of the deal list passed to applyFilters
                        \* and applySort in SpecEngine
MaxSales == 3           \* length of the sales list passed to
                        \* computeSalesStats in SpecStats

----------------------------------------------------------------------------
(* JavaScript values                                                       *)

Absent == -1            \* a numeric property that is undefined

\* x || d on numbers: undefined and 0 are both falsy
OrElse(x, d) == IF x = Absent \/ x = 0 THEN d ELSE x

Min(a, b) == IF a < b THEN a ELSE b

RECURSIVE SelectSeqBy(_, _)
\* Array.prototype.filter with predicate Keep, which is a set of elements
SelectSeqBy(s, Keep) ==
  IF s = <<>> THEN <<>>
  ELSE IF Head(s) \in Keep THEN <<Head(s)>> \o SelectSeqBy(Tail(s), Keep)
       ELSE SelectSeqBy(Tail(s), Keep)

Range(s) == {s[i] : i \in 1..Len(s)}

\* Array.prototype.includes
Includes(s, x) == x \in Range(s)

----------------------------------------------------------------------------
(* The remote service (external): a catalogue of two deals, paged          *)

Uuids == {"u1", "u2"}

NoId == 0               \* value "" of the placeholder option

\* the two deals are variants of one set: they share the display id
Catalogue ==
  << [uuid |-> "u1", id |-> 41, price |-> 30, discount |-> 60,
      commentsCount |-> 20, temperature |-> 150, postedAt |-> 1],
     [uuid |-> "u2", id |-> 41, price |-> 10, discount |-> 40,
      commentsCount |-> Absent, temperature |-> Absent, postedAt |-> 2] >>

DefaultPage == 1
DefaultSize == 6
Sizes == {1, DefaultSize}     \* the options of #show-select

CeilDiv(a, b) == (a + b - 1) \div b

\* data.result of GET /deals?page=&size=
ServerResult(page, size) ==
  LET lo == (page - 1) * size + 1
      hi == Min(page * size, Len(Catalogue))
  IN  IF lo > hi THEN <<>> ELSE SubSeq(Catalogue, lo, hi)

\* data.meta of GET /deals?page=&size=
ServerMeta(page, size) ==
  [defined |-> TRUE, currentPage |-> page,
   pageCount |-> CeilDiv(Len(Catalogue), size),
   count |-> Len(Catalogue), pageSize |-> size]

\* data.result of GET /sales?id= ; dateSold counted in half days
ServerSales(id) ==
  IF id = 41
  THEN << [price |-> 20, dateSold |-> 9], [price |-> 15, dateSold |-> 2] >>
  ELSE <<>>

Outcomes == {"ok", "transportError", "notSuccess"}

----------------------------------------------------------------------------
(* The values of currentDeals and currentPagination                        *)

DefinedDeals(items) == [defined |-> TRUE, items |-> items]
UndefinedDeals == [defined |-> FALSE, items |-> <<>>]

\* {} : an object none of whose properties is set
EmptyPagination ==
  [defined |-> TRUE, currentPage |-> Absent, pageCount |-> Absent,
   count |-> Absent, pageSize |-> Absent]
UndefinedPagination ==
  [defined |-> FALSE, currentPage |-> Absent, pageCount |-> Absent,
   count |-> Absent, pageSize |-> Absent]

----------------------------------------------------------------------------
(* localStorage and JSON                                                   *)

NoItem == [present |-> FALSE, text |-> <<>>]       \* getItem returns null
Item(text) == [present |-> TRUE, text |-> text]

RECURSIVE JoinComma(_)
JoinComma(s) ==
  IF s = <<>> THEN <<>>
  ELSE IF Len(s) = 1 THEN <<s[1]>>
       ELSE <<s[1], ",">> \o JoinComma(Tail(s))

\* JSON.stringify of an array of strings, as a sequence of tokens
JSONstringify(arr) == <<"[">> \o JoinComma(arr) \o <<"]">>

RECURSIVE ParseElements(_)
\* the elements of "e1 , e2 , ... ]" or the failure mark
ParseElements(t) ==
  IF Len(t) < 2 \/ t[1] \notin Uuids THEN [ok |-> FALSE, value |-> <<>>]
  ELSE IF t[2] = "]"
       THEN [ok |-> Len(t) = 2, value |-> <<t[1]>>]
       ELSE IF t[2] # "," THEN [ok |-> FALSE, value |-> <<>>]
            ELSE LET rest == ParseElements(SubSeq(t, 3, Len(t)))
                 IN  [ok |-> rest.ok, value |-> <<t[1]>> \o rest.value]

\* JSON.parse of a token sequence: ok = FALSE when it throws SyntaxError
JSONparse(t) ==
  IF Len(t) < 2 \/ t[1] # "[" THEN [ok |-> FALSE, value |-> <<>>]
  ELSE IF t = <<"[", "]">> THEN [ok |-> TRUE, value |-> <<>>]
       ELSE ParseElements(Tail(t))

\* localStorage.getItem('favorites') || '[]'
StoredText(item) ==
  IF ~item.present \/ item.text = <<>> THEN <<"[", "]">> ELSE item.text

----------------------------------------------------------------------------
(* Data Access: fetchDeals, fetchSales, setCurrentDeals                    *)

\* fetchDeals (lines 79-95): the object the promise resolves to.  On a
\* failure it is the shorthand literal {currentDeals, currentPagination}.
fetchDeals(outcome, page, size, deals, pagination) ==
  IF outcome = "ok"
  THEN [result |-> DefinedDeals(ServerResult(page, size)),
        meta |-> ServerMeta(page, size)]
  ELSE [currentDeals |-> deals, currentPagination |-> pagination]

\* fetchSales that answers a failure with the sales of the id
fetchSalesIgnoresFailure(outcome, id) == ServerSales(id)

\* fetchSales (lines 102-118)
fetchSales(outcome, id) ==
  IF outcome = "ok" THEN ServerSales(id) ELSE <<>>

\* setCurrentDeals without the assignment of line 70
setCurrentDealsKeepsMeta(data) ==
  [deals |-> IF "result" \in DOMAIN data THEN data.result ELSE UndefinedDeals,
   pagination |-> currentPagination]

\* setCurrentDeals (lines 68-71): ({result, meta}) destructures its argument;
\* a property the object does not have is undefined
setCurrentDeals(data) ==
  [deals |-> IF "result" \in DOMAIN data THEN data.result ELSE UndefinedDeals,
   pagination |-> IF "meta" \in DOMAIN data THEN data.meta
                  ELSE UndefinedPagination]

----------------------------------------------------------------------------
(* Filter/Sort engine                                                      *)

NoFilter == "null"
FilterButtons == {"best-discount", "most-commented", "hot-deals", "favorites"}
SortOptions == {"date-desc"}    \* the option the user switches to

\* the switch of applyFilters with thresholds that let the bound itself pass
PassesAtLeast(d, filter, favs) ==
  CASE filter = "best-discount" -> OrElse(d.discount, 0) >= 50
    [] filter = "most-commented" -> OrElse(d.commentsCount, 0) >= 15
    [] filter = "hot-deals" -> OrElse(d.temperature, 0) >= 100
    [] filter = "favorites" -> Includes(favs, d.uuid)
    [] OTHER -> TRUE

\* the predicate of each case of the switch in applyFilters
Passes(d, filter, favs) ==
  CASE filter = "best-discount" -> OrElse(d.discount, 0) > 50
    [] filter = "most-commented" -> OrElse(d.commentsCount, 0) > 15
    [] filter = "hot-deals" -> OrElse(d.temperature, 0) > 100
    [] filter = "favorites" -> Includes(favs, d.uuid)
    [] OTHER -> TRUE

\* applyFilters (lines 208-230), currentFilter and favorites made explicit
applyFilters(deals, filter, favs) ==
  SelectSeqBy(deals, {d \in Range(deals) : Passes(d, filter, favs)})

\* the comparator of each case of the switch in applySort
Compare(a, b, sortValue) ==
  CASE sortValue = "price-asc" -> OrElse(a.price, 0) - OrElse(b.price, 0)
    [] sortValue = "price-desc" -> OrElse(b.price, 0) - OrElse(a.price, 0)
    [] sortValue = "date-asc" -> a.postedAt - b.postedAt
    [] sortValue = "date-desc" -> b.postedAt - a.postedAt
    [] OTHER -> 0

RECURSIVE InsertSortedBeforeEquals(_, _, _)
\* x placed before the elements it compares equal to: a sort that is not
\* stable
InsertSortedBeforeEquals(s, x, sortValue) ==
  IF s = <<>> THEN <<x>>
  ELSE IF Compare(x, Head(s), sortValue) <= 0 THEN <<x>> \o s
       ELSE <<Head(s)>> \o InsertSortedBeforeEquals(Tail(s), x, sortValue)

RECURSIVE InsertSorted(_, _, _)
\* x placed after every element that does not compare greater than it
InsertSorted(s, x, sortValue) ==
  IF s = <<>> THEN <<x>>
  ELSE IF Compare(x, Head(s), sortValue) < 0 THEN <<x>> \o s
       ELSE <<Head(s)>> \o InsertSorted(Tail(s), x, sortValue)

RECURSIVE applySort(_, _)
\* applySort (lines 237-262): Array.prototype.sort is stable
applySort(deals, sortValue) ==
  IF deals = <<>> THEN <<>>
  ELSE InsertSorted(applySort(SubSeq(deals, 1, Len(deals) - 1), sortValue),
                    deals[Len(deals)], sortValue)

----------------------------------------------------------------------------
(* Statistics engine                                                       *)

RECURSIVE InsertNum(_, _)
\* sort() places undefined after every number, whatever the comparator
InsertNum(s, x) ==
  IF s = <<>> THEN <<x>>
  ELSE IF x # Absent /\ (Head(s) = Absent \/ x < Head(s)) THEN <<x>> \o s
       ELSE <<Head(s)>> \o InsertNum(Tail(s), x)

RECURSIVE SortNums(_)
\* sort((a, b) => a - b)
SortNums(s) ==
  IF s = <<>> THEN <<>>
  ELSE InsertNum(SortNums(SubSeq(s, 1, Len(s) - 1)), s[Len(s)])

RECURSIVE Sum(_)
Sum(s) == IF s = <<>> THEN 0 ELSE Head(s) + Sum(Tail(s))

HalfDaysPerDay == 2     \* dateSold is counted in half days

\* a fraction num/den; NaN is 0/0
NaN == [num |-> 0, den |-> 0]

\* the index taken with Math.round in place of Math.floor
PercentileRounded(prices, hundredths) ==
  LET i == (hundredths * Len(prices) + 50) \div 100
  IN  IF i + 1 \in DOMAIN prices THEN OrElse(prices[i + 1], 0) ELSE 0

\* prices[Math.floor(f * count)] || 0, f given in hundredths
Percentile(prices, hundredths) ==
  LET i == (hundredths * Len(prices)) \div 100
  IN  IF i + 1 \in DOMAIN prices THEN OrElse(prices[i + 1], 0) ELSE 0

\* computeSalesStats (lines 286-320); avg is the fraction num/den
computeSalesStats(sales) ==
  IF Len(sales) = 0
  THEN [count |-> 0, p5 |-> 0, p25 |-> 0, p50 |-> 0,
        avg |-> [num |-> 0, den |-> 1], lifetime |-> 0]
  ELSE LET prices == SortNums([i \in DOMAIN sales |-> sales[i].price])
           dates == SortNums([i \in DOMAIN sales |-> sales[i].dateSold])
           span == dates[Len(dates)] - dates[1]
       IN  [count |-> Len(prices),
            p5 |-> Percentile(prices, 5),
            p25 |-> Percentile(prices, 25),
            p50 |-> Percentile(prices, 50),
            \* a sum with undefined in it is NaN
            avg |-> IF Includes(prices, Absent) THEN NaN
                    ELSE [num |-> Sum(prices), den |-> Len(prices)],
            \* Math.round(span / one day)
            lifetime |-> (2 * span + HalfDaysPerDay) \div (2 * HalfDaysPerDay)]

\* Number.prototype.toFixed(2), as a number of hundredths; "NaN" for NaN
ToFixed2(q) ==
  IF q = NaN THEN Absent ELSE (200 * q.num + q.den) \div (2 * q.den)

----------------------------------------------------------------------------
(* Presentation layer                                                      *)

\* renderDeals that leaves the first deal out
renderDealsWithoutFirst(deals, favs) ==
  [i \in 1..(Len(deals) - 1) |->
     [deal |-> deals[i + 1], star |-> Includes(favs, deals[i + 1].uuid)]]

\* renderDeals (lines 127-155): one entry per deal with its star
renderDeals(deals, favs) ==
  [i \in DOMAIN deals |-> [deal |-> deals[i],
                           star |-> Includes(favs, deals[i].uuid)]]

RECURSIVE Distinct(_)
\* Array.from(new Set(ids)): first occurrences, in order
Distinct(s) ==
  IF s = <<>> THEN <<>>
  ELSE LET front == Distinct(SubSeq(s, 1, Len(s) - 1))
       IN  IF Includes(front, s[Len(s)]) THEN front
           ELSE Append(front, s[Len(s)])

\* getIdsFromDeals (lines 179-182); the ids have as many digits each, so
\* the default sort orders them as numbers
getIdsFromDeals(deals) ==
  SortNums(Distinct([i \in DOMAIN deals |-> deals[i].id]))

\* renderPagination that forgets that pages are 1-based
renderPaginationOffByOne(pagination) ==
  LET n == IF pagination.pageCount = Absent THEN 0 ELSE pagination.pageCount
      idx == IF pagination.currentPage = Absent THEN 0
             ELSE pagination.currentPage
  IN  [options |-> n,
       selectedIndex |-> IF idx \in 0..(n - 1) THEN idx ELSE -1]

\* renderPagination (lines 161-172): the options and the selectedIndex
renderPagination(pagination) ==
  LET n == IF pagination.pageCount = Absent THEN 0 ELSE pagination.pageCount
      idx == IF pagination.currentPage = Absent THEN 0
             ELSE pagination.currentPage - 1
  IN  [options |-> n,
       selectedIndex |-> IF idx \in 0..(n - 1) THEN idx ELSE -1]

\* renderSales (lines 326-359)
renderSales(sales) ==
  LET stats == computeSalesStats(sales)
  IN  [nbSales |-> stats.count, p5 |-> stats.p5, p25 |-> stats.p25,
       p50 |-> stats.p50, avg |-> ToFixed2(stats.avg),
       lifetime |-> stats.lifetime,
       list |-> sales, emptyMessage |-> Len(sales) = 0]

\* spread of undefined in applyFilters, or destructuring of undefined in
\* renderPagination, raises TypeError
RenderThrows(deals, pagination) == ~deals.defined \/ ~pagination.defined

\* render (lines 267-279): the DOM after the call
render(deals, pagination) ==
  /\ IF deals.defined
     THEN shownDeals' =
            renderDeals(applySort(applyFilters(deals.items, currentFilter',
                                               favorites'), currentSort'),
                        favorites')
     ELSE UNCHANGED shownDeals
  /\ IF RenderThrows(deals, pagination)
     THEN UNCHANGED <<pageOptions, pageSelectedIndex, nbDeals, idOptions,
                      idSelected>>
     ELSE /\ pageOptions' = renderPagination(pagination).options
          /\ pageSelectedIndex' = renderPagination(pagination).selectedIndex
          /\ nbDeals' = pagination.count
          /\ idOptions' = getIdsFromDeals(deals.items)
          /\ idSelected' = NoId

----------------------------------------------------------------------------
(* Favorites store                                                         *)

\* toggleFavorite that pushes without looking for the id
ToggledFavoritesAlwaysPush(favs, uuid) == Append(favs, uuid)

\* lines 458-462 of toggleFavorite: the array after the toggle
ToggledFavorites(favs, uuid) ==
  IF Includes(favs, uuid)
  THEN SelectSeqBy(favs, Range(favs) \ {uuid})
  ELSE Append(favs, uuid)

\* toggleFavorite that persists the array it had before the toggle
PersistedFavoritesStale(favs) == Item(JSONstringify(favorites))

\* line 463 of toggleFavorite: the value written to localStorage
PersistedFavorites(favs) == Item(JSONstringify(favs))

----------------------------------------------------------------------------
(* Initial state: the script has been evaluated                            *)

RECURSIVE SeqsUpTo(_, _)
SeqsUpTo(S, n) ==
  IF n = 0 THEN {<<>>}
  ELSE LET shorter == SeqsUpTo(S, n - 1)
       IN  shorter \cup {Append(q, x) : q \in shorter, x \in S}

StoredUuids == {"u1"}

\* what localStorage may hold when the page is opened: nothing, text that
\* is not JSON, or the array an earlier session wrote (the empty array is
\* written by this session's own toggles)
StoredAtStartup ==
  {NoItem, Item(<<"{">>)}
    \cup {Item(JSONstringify(f)) :
            f \in SeqsUpTo(StoredUuids, MaxStored) \ {<<>>}}

\* op: the listener; arg: the button, option or star the user operated, or
\* the kind of the request that was answered;
\* active: the pressed filter button was that of the active filter; ok: the
\* fetch succeeded; threw: the listener ended with an uncaught exception
Event(op, arg, active, ok, threw) ==
  [op |-> op, arg |-> arg, active |-> active, ok |-> ok, threw |-> threw]

\* count: how many times in a row the same star was just toggled (up to 2);
\* favorites, stored: their values before the first of these toggles
NoSnapshot == [count |-> 0, favorites |-> <<>>, stored |-> NoItem]

EmptySalesPanel ==
  [nbSales |-> 0, p5 |-> 0, p25 |-> 0, p50 |-> 0, avg |-> 0, lifetime |-> 0,
   list |-> <<>>, emptyMessage |-> FALSE]

Start(fetches) ==
  /\ budget = fetches
  /\ stored \in StoredAtStartup
  /\ LET parsed == JSONparse(StoredText(stored))      \* line 42
     IN  /\ scriptLoaded = parsed.ok
         /\ favorites = parsed.value
         /\ lastEvent = Event("script", "", FALSE, TRUE, ~parsed.ok)
  /\ domLoaded = FALSE
  /\ currentDeals = DefinedDeals(<<>>)                \* line 32
  /\ currentPagination = EmptyPagination              \* line 33
  /\ currentFilter = NoFilter                         \* line 36
  /\ currentSort = "price-asc"                        \* line 39
  /\ inflight = <<>>
  /\ shownDeals = <<>>
  /\ pageOptions = 0
  /\ pageSelectedIndex = -1
  /\ nbDeals = Absent
  /\ idOptions = <<>>
  /\ idSelected = NoId
  /\ salesPanel = EmptySalesPanel
  /\ beforeToggle = NoSnapshot
  /\ stale = FALSE
  /\ toggled = FALSE

\* no engine function is under test: the page runs
NoCall == [fn |-> "", key |-> "", given |-> <<>>]
EngineIdle == argument = <<>> /\ call = NoCall /\ returned = <<>>

\* startup: favorites as line 42 left it; odd: the ids toggled an odd number
\* of times since
NotCounted == [counted |-> FALSE, startup |-> <<>>, odd |-> {}]
CountedFrom(favs) == [counted |-> TRUE, startup |-> favs, odd |-> {}]

----------------------------------------------------------------------------
(* Event listeners                                                         *)

dealsState == <<currentDeals, currentPagination>>
engineState == <<argument, call, returned>>
viewState == <<currentFilter, currentSort>>
favState == <<favorites, stored, toggled>>
dealsDom == <<shownDeals, pageOptions, pageSelectedIndex, nbDeals, idOptions,
              idSelected>>

Request(kind, page, size, id) ==
  [kind |-> kind, page |-> page, size |-> size, id |-> id,
   overtaken |-> FALSE]

\* the run may issue one more fetch
CanFetch == budget > 0

RemoveAt(s, i) == SubSeq(s, 1, i - 1) \o SubSeq(s, i + 1, Len(s))

\* the pending deals requests issued before the i-th are marked
Overtake(s, i) ==
  [j \in DOMAIN s |->
     IF j < i /\ s[j].kind # "sales" THEN [s[j] EXCEPT !.overtaken = TRUE]
     ELSE s[j]]

\* lines 471-477 up to the await
DOMContentLoaded ==
  /\ scriptLoaded /\ ~domLoaded
  /\ domLoaded' = TRUE
  /\ budget' = budget - 1
  /\ inflight' = Append(inflight,
                        Request("load", DefaultPage, DefaultSize, NoId))
  /\ lastEvent' = Event("load", "", FALSE, TRUE, FALSE)
  /\ beforeToggle' = NoSnapshot
  /\ UNCHANGED <<engineState, toggles>>
  /\ UNCHANGED <<scriptLoaded, dealsState, viewState, favState,
                 dealsDom, salesPanel, stale>>

\* lines 368-371: 'change' on #show-select, up to the await
ShowChange(size) ==
  /\ scriptLoaded /\ domLoaded
  /\ IF currentPagination.defined
     THEN /\ CanFetch
          /\ budget' = budget - 1
          /\ inflight' = Append(inflight,
               Request("show", OrElse(currentPagination.currentPage, 1),
                       size, NoId))
          /\ lastEvent' = Event("show", "", FALSE, TRUE, FALSE)
     ELSE \* reading a property of undefined raises TypeError
          /\ UNCHANGED <<inflight, budget>>
          /\ lastEvent' = Event("show", "", FALSE, TRUE, TRUE)
  /\ beforeToggle' = NoSnapshot
  /\ UNCHANGED <<engineState, toggles>>
  /\ UNCHANGED <<scriptLoaded, domLoaded, dealsState, viewState, favState,
                 dealsDom, salesPanel, stale>>

\* lines 380-384: 'change' on #page-select, up to the await; the user has
\* moved the selector to option p
PageChange(p) ==
  /\ scriptLoaded /\ domLoaded
  /\ p \in 1..pageOptions /\ p - 1 # pageSelectedIndex
  /\ pageSelectedIndex' = p - 1
  /\ IF currentPagination.defined
     THEN /\ CanFetch
          /\ budget' = budget - 1
          /\ inflight' = Append(inflight,
               Request("page", p, OrElse(currentPagination.pageSize, 6),
                       NoId))
          /\ lastEvent' = Event("page", "", FALSE, TRUE, FALSE)
     ELSE /\ UNCHANGED <<inflight, budget>>
          /\ lastEvent' = Event("page", "", FALSE, TRUE, TRUE)
  /\ beforeToggle' = NoSnapshot
  /\ UNCHANGED <<engineState, toggles>>
  /\ UNCHANGED <<scriptLoaded, domLoaded, dealsState, viewState, favState,
                 shownDeals, pageOptions, nbDeals, idOptions,
                 idSelected, salesPanel, stale>>

\* the rest of the three deals listeners (lines 371-374, 384-386, 473-476):
\* the fetch of request r settles, then setCurrentDeals and render
DealsResponse(i, outcome) ==
  /\ i \in DOMAIN inflight /\ inflight[i].kind # "sales"
  /\ LET r == inflight[i]
         data == fetchDeals(outcome, r.page, r.size, currentDeals,
                            currentPagination)
         next == setCurrentDeals(data)
     IN  /\ currentDeals' = next.deals
         /\ currentPagination' = next.pagination
         /\ lastEvent' = Event("dealsResponse", r.kind, FALSE, outcome = "ok",
                    RenderThrows(next.deals, next.pagination))
         /\ inflight' = IF outcome = "ok"
                        THEN RemoveAt(Overtake(inflight, i), i)
                        ELSE RemoveAt(inflight, i)
         /\ stale' = (outcome = "ok" /\ r.overtaken /\ r.kind # "load")
  /\ UNCHANGED <<viewState, favState>>
  /\ render(currentDeals', currentPagination')
  /\ beforeToggle' = NoSnapshot
  /\ UNCHANGED <<engineState, toggles>>
  /\ UNCHANGED <<scriptLoaded, domLoaded, budget, salesPanel>>

\* the listener of #lego-set-id-select without the renderSales([]) of line
\* 396: the placeholder option leaves the sales panel as it is
SelectIdKeepsPanel(id) ==
  /\ scriptLoaded /\ domLoaded
  /\ id \in Range(idOptions) \cup {NoId} /\ id # idSelected
  /\ idSelected' = id
  /\ IF id = NoId
     THEN UNCHANGED <<inflight, budget>>
     ELSE /\ CanFetch
          /\ budget' = budget - 1
          /\ inflight' = Append(inflight, Request("sales", 0, 0, id))
  /\ lastEvent' = Event("ids", "", FALSE, TRUE, FALSE)
  /\ beforeToggle' = NoSnapshot
  /\ UNCHANGED <<engineState, toggles>>
  /\ UNCHANGED <<scriptLoaded, domLoaded, dealsState, viewState, favState,
                 shownDeals, pageOptions, pageSelectedIndex, nbDeals,
                 idOptions, salesPanel, stale>>

\* lines 392-399: 'change' on #lego-set-id-select, up to the await
SelectId(id) ==
  /\ scriptLoaded /\ domLoaded
  /\ id \in Range(idOptions) \cup {NoId} /\ id # idSelected
  /\ idSelected' = id
  /\ IF id = NoId
     THEN /\ salesPanel' = renderSales(<<>>)
          /\ UNCHANGED <<inflight, budget>>
          /\ lastEvent' = Event("ids", "", FALSE, TRUE, FALSE)
     ELSE /\ CanFetch
          /\ budget' = budget - 1
          /\ inflight' = Append(inflight, Request("sales", 0, 0, id))
          /\ lastEvent' = Event("ids", "", FALSE, TRUE, FALSE)
          /\ UNCHANGED salesPanel
  /\ beforeToggle' = NoSnapshot
  /\ UNCHANGED <<engineState, toggles>>
  /\ UNCHANGED <<scriptLoaded, domLoaded, dealsState, viewState, favState,
                 shownDeals, pageOptions, pageSelectedIndex, nbDeals,
                 idOptions, stale>>

\* lines 399-400: the sales fetch of request r settles, then renderSales
SalesResponse(i, outcome) ==
  /\ i \in DOMAIN inflight /\ inflight[i].kind = "sales"
  /\ inflight' = RemoveAt(inflight, i)
  /\ salesPanel' = renderSales(fetchSales(outcome, inflight[i].id))
  /\ lastEvent' = Event("salesResponse", "", FALSE, outcome = "ok", FALSE)
  /\ UNCHANGED budget
  /\ beforeToggle' = NoSnapshot
  /\ UNCHANGED <<engineState, toggles>>
  /\ UNCHANGED <<scriptLoaded, domLoaded, dealsState, viewState, favState,
                 dealsDom, stale>>

\* lines 406-433: 'click' on one of the four filter buttons
\* a filter listener that clears the filter when its button is pressed again
FilterHandlerToggles(f) ==
  /\ currentFilter' = IF currentFilter = f THEN NoFilter ELSE f
  /\ UNCHANGED <<currentSort, favState, dealsState, inflight, budget>>
  /\ render(currentDeals, currentPagination)

\* a filter listener that also puts the sort back to its default
FilterHandlerResetsSort(f) ==
  /\ currentFilter' = f
  /\ currentSort' = "price-asc"
  /\ UNCHANGED <<favState, dealsState, inflight, budget>>
  /\ render(currentDeals, currentPagination)

\* the body of the four filter listeners
FilterHandler(f) ==
  /\ currentFilter' = f
  /\ UNCHANGED <<currentSort, favState, dealsState, inflight, budget>>
  /\ render(currentDeals, currentPagination)

FilterClick(f) ==
  /\ scriptLoaded /\ domLoaded
  /\ FilterHandler(f)
  /\ lastEvent' = Event("filter", f, currentFilter = f, TRUE,
                        RenderThrows(currentDeals, currentPagination))
  /\ beforeToggle' = NoSnapshot
  /\ UNCHANGED <<engineState, toggles>>
  /\ UNCHANGED <<scriptLoaded, domLoaded, salesPanel, stale>>

\* lines 438-441: 'change' on #sort-select
SortChange(s) ==
  /\ scriptLoaded /\ domLoaded
  /\ currentSort' = s
  /\ UNCHANGED <<currentFilter, favState, dealsState>>
  /\ render(currentDeals, currentPagination)
  /\ lastEvent' = Event("sort", s, FALSE, TRUE,
                        RenderThrows(currentDeals, currentPagination))
  /\ beforeToggle' = NoSnapshot
  /\ UNCHANGED <<engineState, toggles>>
  /\ UNCHANGED <<scriptLoaded, domLoaded, inflight, budget,
                 salesPanel, stale>>

\* lines 457-466, called from the 'click' listener of #deals (lines 447-452)
\* when the target is the star of a painted deal
toggleFavorite(uuid) ==
  /\ favorites' = ToggledFavorites(favorites, uuid)
  /\ stored' = PersistedFavorites(favorites')
  /\ toggled' = TRUE
  /\ UNCHANGED <<viewState, dealsState>>
  /\ render(currentDeals, currentPagination)

FavoriteClick(uuid) ==
  /\ scriptLoaded /\ domLoaded
  /\ \E i \in DOMAIN shownDeals : shownDeals[i].deal.uuid = uuid
  /\ toggleFavorite(uuid)
  /\ toggles' = IF toggles.counted
                THEN [toggles EXCEPT
                        !.odd = (@ \ {uuid}) \cup ({uuid} \ @)]
                ELSE toggles
  /\ lastEvent' = Event("favorite", uuid, FALSE, TRUE,
                        RenderThrows(currentDeals, currentPagination))
  /\ beforeToggle' =
       IF lastEvent.op = "favorite" /\ lastEvent.arg = uuid
          /\ beforeToggle.count = 1
       THEN [beforeToggle EXCEPT !.count = 2]
       ELSE [count |-> 1, favorites |-> favorites, stored |-> stored]
  /\ UNCHANGED engineState
  /\ UNCHANGED <<scriptLoaded, domLoaded, inflight, budget,
                 salesPanel, stale>>

Next ==
  \/ DOMContentLoaded
  \/ \E size \in Sizes : ShowChange(size)
  \/ \E p \in 1..pageOptions : PageChange(p)
  \/ \E i \in DOMAIN inflight, outcome \in Outcomes : DealsResponse(i, outcome)
  \/ \E id \in Range(idOptions) \cup {NoId} : SelectId(id)
  \/ \E i \in DOMAIN inflight, outcome \in Outcomes : SalesResponse(i, outcome)
  \/ \E f \in FilterButtons : FilterClick(f)
  \/ \E s \in SortOptions : SortChange(s)
  \/ \E uuid \in Uuids : FavoriteClick(uuid)

Init == Start(MaxRequests) /\ toggles = NotCounted /\ EngineIdle

\* every button, option and star, and MaxRequests fetches
Spec == Init /\ [][Next]_vars

FetchFilterButtons == {"favorites"}
FetchStars == {"u1"}

\* the runs with more fetches, the user keeping to one filter button, one
\* sort option and one star
NextFetch ==
  \/ DOMContentLoaded
  \/ \E size \in Sizes : ShowChange(size)
  \/ \E p \in 1..pageOptions : PageChange(p)
  \/ \E i \in DOMAIN inflight, outcome \in Outcomes : DealsResponse(i, outcome)
  \/ \E id \in Range(idOptions) \cup {NoId} : SelectId(id)
  \/ \E i \in DOMAIN inflight, outcome \in Outcomes : SalesResponse(i, outcome)
  \/ \E f \in FetchFilterButtons : FilterClick(f)
  \/ \E s \in SortOptions : SortChange(s)
  \/ \E uuid \in FetchStars : FavoriteClick(uuid)

InitFetch == Start(MaxFetchRequests) /\ toggles = NotCounted /\ EngineIdle

SpecFetch == InitFetch /\ [][NextFetch]_vars

\* the runs around the initial load: the listeners that need no further
\* fetch, with the toggles of each star counted
NextLoad ==
  \/ DOMContentLoaded
  \/ \E size \in Sizes : ShowChange(size)
  \/ \E i \in DOMAIN inflight, outcome \in Outcomes : DealsResponse(i, outcome)
  \/ \E f \in FilterButtons : FilterClick(f)
  \/ \E s \in SortOptions : SortChange(s)
  \/ \E uuid \in Uuids : FavoriteClick(uuid)

InitLoad ==
  Start(MaxLoadRequests) /\ toggles = CountedFrom(favorites) /\ EngineIdle

\* the promise of a fetch settles (the transport gives up at the latest),
\* and the event loop then runs the rest of the listener that awaits it
FetchSettles ==
  WF_vars(\E i \in DOMAIN inflight, outcome \in Outcomes :
            DealsResponse(i, outcome))

SpecLoad == InitLoad /\ [][NextLoad]_vars /\ FetchSettles

InitStars ==
  Start(MaxStarRequests) /\ toggles = CountedFrom(favorites) /\ EngineIdle

\* the same listeners with one fetch more: a page-size change after the
\* initial load
SpecStars == InitStars /\ [][NextLoad]_vars

----------------------------------------------------------------------------
(* The engine functions called on their own                                *)

\* deals as the service may send them: two with the same price, two posted
\* at the same time, one without price and metrics, metrics on both sides
\* of the thresholds
DealPool ==
  { [uuid |-> "u1", id |-> 41, price |-> 10, discount |-> 60,
     commentsCount |-> 20, temperature |-> 150, postedAt |-> 2],
    [uuid |-> "u2", id |-> 42, price |-> 10, discount |-> 50,
     commentsCount |-> 15, temperature |-> 100, postedAt |-> 1],
    [uuid |-> "u3", id |-> 41, price |-> Absent, discount |-> Absent,
     commentsCount |-> Absent, temperature |-> Absent, postedAt |-> 2],
    [uuid |-> "u4", id |-> 43, price |-> 0, discount |-> 51,
     commentsCount |-> 16, temperature |-> 101, postedAt |-> 3] }

DealLists == SeqsUpTo(DealPool, MaxDeals)

\* the values currentFilter may hold when applyFilters runs
FilterValues == FilterButtons \cup {NoFilter, "no-such-filter"}

\* the values of sortValue: the options of #sort-select and another string
SortValues ==
  {"price-asc", "price-desc", "date-asc", "date-desc", "no-such-sort"}

EngineFavorites == {<<>>, <<"u1">>, <<"u3", "u1">>}

\* everything but currentFilter, favorites and the engine variables
pageAtRest ==
  <<scriptLoaded, domLoaded, currentDeals, currentPagination, currentSort,
    stored, inflight, budget, shownDeals, pageOptions, pageSelectedIndex,
    nbDeals, idOptions, idSelected, salesPanel, lastEvent, beforeToggle,
    stale, toggled, toggles>>

\* the script has been evaluated (lines 32-62) and no event has fired
AtRest ==
  /\ scriptLoaded = TRUE /\ domLoaded = FALSE
  /\ currentDeals = DefinedDeals(<<>>)
  /\ currentPagination = EmptyPagination
  /\ currentFilter = NoFilter
  /\ currentSort = "price-asc"
  /\ stored = NoItem /\ inflight = <<>> /\ budget = 0
  /\ shownDeals = <<>> /\ pageOptions = 0 /\ pageSelectedIndex = -1
  /\ nbDeals = Absent /\ idOptions = <<>> /\ idSelected = NoId
  /\ salesPanel = EmptySalesPanel
  /\ lastEvent = Event("script", "", FALSE, TRUE, FALSE)
  /\ beforeToggle = NoSnapshot /\ stale = FALSE /\ toggled = FALSE
  /\ toggles = NotCounted

Call(fn, key, given) == [fn |-> fn, key |-> key, given |-> given]

\* applyFilters(argument) with currentFilter = f (lines 208-230): line 209
\* copies the array and filter() builds a new one, the array passed is not
\* written
CallApplyFilters(f) ==
  /\ currentFilter' = f
  /\ returned' = applyFilters(argument, currentFilter', favorites)
  /\ argument' = argument
  /\ call' = Call("applyFilters", f, argument)
  /\ UNCHANGED <<favorites, pageAtRest>>

\* applySort(argument, k) (lines 237-262): sort() works in place on the copy
\* of line 239, the array passed is not written
CallApplySort(k) ==
  /\ returned' = applySort(argument, k)
  /\ argument' = argument
  /\ call' = Call("applySort", k, argument)
  /\ UNCHANGED <<currentFilter, favorites, pageAtRest>>

NextEngine ==
  \/ \E f \in FilterValues : CallApplyFilters(f)
  \/ \E k \in SortValues : CallApplySort(k)

InitEngine ==
  /\ AtRest
  /\ favorites \in EngineFavorites
  /\ argument \in DealLists
  /\ call = NoCall /\ returned = <<>>

\* applyFilters and applySort on every deal list of at most MaxDeals deals
SpecEngine == InitEngine /\ [][NextEngine]_vars

\* sales as the service may send them: a price of 0 and a missing price
\* among them
SalePool ==
  { [price |-> 10, dateSold |-> 1], [price |-> 20, dateSold |-> 3],
    [price |-> 0, dateSold |-> 2], [price |-> Absent, dateSold |-> 1] }

\* five sales with the prices 10, 20, 30, 40, 50, in that order and shuffled
FiveSales ==
  { [i \in 1..5 |-> [price |-> 10 * i, dateSold |-> i]],
    [i \in 1..5 |-> [price |-> 10 * (((2 * i) % 5) + 1), dateSold |-> i]] }

SalesLists == SeqsUpTo(SalePool, MaxSales) \cup FiveSales

\* computeSalesStats(argument) (lines 286-320): map() builds the arrays
\* that are sorted, the array passed is not written
CallComputeSalesStats ==
  /\ call.fn = ""
  /\ returned' = computeSalesStats(argument)
  /\ argument' = argument
  /\ call' = Call("computeSalesStats", "", argument)
  /\ UNCHANGED <<currentFilter, favorites, pageAtRest>>

NextStats == CallComputeSalesStats

InitStats ==
  /\ AtRest
  /\ favorites = <<>>
  /\ argument \in SalesLists
  /\ call = NoCall /\ returned = <<>>

\* computeSalesStats on every sales list of at most MaxSales sales and on
\* the five-sales lists
SpecStats == InitStats /\ [][NextStats]_vars

----------------------------------------------------------------------------
(* Properties                                                              *)

\* no listener is between its await and its end
Idle == inflight = <<>>

\* the initial load has been issued and its fetch has settled
LoadDone ==
  domLoaded /\ \A i \in DOMAIN inflight : inflight[i].kind # "load"

PageChangePending == \E i \in DOMAIN inflight : inflight[i].kind = "page"

ShownList == [i \in DOMAIN shownDeals |-> shownDeals[i].deal]

Pipeline ==
  applySort(applyFilters(currentDeals.items, currentFilter, favorites),
            currentSort)

ZeroSalesPanel ==
  [nbSales |-> 0, p5 |-> 0, p25 |-> 0, p50 |-> 0, avg |-> 0, lifetime |-> 0,
   list |-> <<>>, emptyMessage |-> TRUE]

\* C1: a deals fetch that fails leaves currentDeals and currentPagination
\* as they were when its listener resumes.
C1_FailedDealsFetchIsNoOp ==
  [][(lastEvent'.op = "dealsResponse" /\ ~lastEvent'.ok)
       => (currentDeals' = currentDeals
           /\ currentPagination' = currentPagination)]_vars

\* C2: no listener ends with an uncaught exception, whatever the outcome of
\* the fetches before it.
C2_NoListenerRaises == lastEvent.op # "script" => ~lastEvent.threw

\* C3 as stated: a filter button clears the filter when it is that of the
\* active filter, and sets its own filter otherwise.
C3_FilterButtonsToggle ==
  lastEvent.op = "filter"
    => currentFilter = IF lastEvent.active THEN NoFilter ELSE lastEvent.arg

\* C3 amended: a filter button sets the active filter to its own filter,
\* also when that filter is already the active one.
C3_FilterButtonsSet == lastEvent.op = "filter" => currentFilter = lastEvent.arg

\* the button of the active filter has just been pressed
C3_Witness ==
  lastEvent.op = "filter" /\ lastEvent.active /\ currentFilter = lastEvent.arg

\* C4: when no listener is mid-execution the painted list is
\* applySort(applyFilters(currentDeals), currentSort).
C4_ShownIsPipeline == Idle => (currentDeals.defined /\ ShownList = Pipeline)

\* C5: the response of a deals request that succeeds overwrites currentDeals
\* and currentPagination with its data, whatever was issued after it, and
\* a pending request leaves the queue only when its own response arrives.
C5_LastResolvedWins ==
  [][/\ Len(inflight') < Len(inflight)
          => lastEvent'.op \in {"dealsResponse", "salesResponse"}
     /\ (lastEvent'.op = "dealsResponse" /\ lastEvent'.ok)
          => \E i \in DOMAIN inflight :
               /\ inflight[i].kind # "sales"
               /\ Len(inflight') = Len(inflight) - 1
               /\ currentDeals' = DefinedDeals(
                    ServerResult(inflight[i].page, inflight[i].size))
               /\ currentPagination' =
                    ServerMeta(inflight[i].page, inflight[i].size)
               /\ stale' = (inflight[i].overtaken
                            /\ inflight[i].kind # "load")]_vars

\* the page shows the data of a page or size request although a request
\* issued after it had already been applied
C5_Witness ==
  stale /\ Idle /\ currentDeals.defined /\ ShownList = Pipeline
    /\ lastEvent.op = "dealsResponse"

C7_StoredIsFavorites ==
  toggled => /\ stored = Item(JSONstringify(favorites))
             /\ JSONparse(stored.text) = [ok |-> TRUE, value |-> favorites]

\* a state after a toggle and a later event, with favorites left
C7_Witness ==
  toggled /\ favorites # <<>> /\ lastEvent.op \notin {"favorite", "script"}

C9_LocalEventsFrame ==
  [][(lastEvent'.op \in {"filter", "sort", "favorite"})
       => /\ inflight' = inflight /\ budget' = budget
          /\ currentDeals' = currentDeals
          /\ currentPagination' = currentPagination
          /\ lastEvent'.op = "filter"
               => (currentSort' = currentSort /\ favorites' = favorites)
          /\ lastEvent'.op = "sort"
               => (currentFilter' = currentFilter /\ favorites' = favorites)
          /\ lastEvent'.op = "favorite"
               => (currentFilter' = currentFilter
                   /\ currentSort' = currentSort)]_vars

\* a filter button was pressed with a fetch pending, a sort chosen and a
\* favorite kept
C9_Witness ==
  /\ lastEvent.op = "filter" /\ inflight # <<>>
  /\ currentSort # "price-asc" /\ favorites # <<>>
  /\ currentDeals.defined /\ currentDeals.items # <<>>

\* C10: a sales fetch that fails paints the all-zero statistics and the
\* empty-state message, raises nothing and leaves the deals state, the
\* filter, the sort and the favorites alone.
C10_FailedSalesFetchIsEmpty ==
  [][(lastEvent'.op = "salesResponse" /\ ~lastEvent'.ok)
       => /\ salesPanel' = ZeroSalesPanel
          /\ ~lastEvent'.threw
          /\ UNCHANGED <<currentDeals, currentPagination, currentFilter,
                         currentSort, favorites>>]_vars

\* the sales fetch of the id that is still selected has failed
C10_Witness ==
  /\ lastEvent.op = "salesResponse" /\ ~lastEvent.ok
  /\ salesPanel = ZeroSalesPanel /\ idSelected # NoId

\* C11: choosing the placeholder option paints the empty sales panel and
\* issues no request; choosing an id issues one sales request for that id,
\* whose answer is painted when it arrives; neither step touches the painted
\* deals, currentDeals, currentPagination, the filter or the sort; and no
\* step that re-renders the deals touches the sales panel.
C11_SelectionIsIndependent ==
  [][/\ lastEvent'.op = "ids"
          => /\ idSelected' = NoId
                  => /\ salesPanel' = ZeroSalesPanel
                     /\ inflight' = inflight /\ budget' = budget
             /\ idSelected' # NoId
                  => /\ inflight' = Append(inflight,
                                           Request("sales", 0, 0, idSelected'))
                     /\ budget' = budget - 1
     /\ (lastEvent'.op = "salesResponse" /\ lastEvent'.ok)
          => \E i \in DOMAIN inflight :
               /\ inflight[i].kind = "sales"
               /\ inflight' = RemoveAt(inflight, i)
               /\ salesPanel'.list = ServerSales(inflight[i].id)
               /\ salesPanel'.nbSales = Len(ServerSales(inflight[i].id))
     /\ lastEvent'.op \in {"ids", "salesResponse"}
          => UNCHANGED <<shownDeals, currentDeals, currentPagination,
                         currentFilter, currentSort>>
     /\ lastEvent'.op \in {"dealsResponse", "filter", "sort", "favorite"}
          => salesPanel' = salesPanel]_vars

\* the sales of an id are on the page and a filter press has just
\* re-rendered the deals
C11_Witness ==
  /\ lastEvent.op = "filter" /\ ~lastEvent.threw
  /\ salesPanel.list = ServerSales(41) /\ salesPanel.nbSales = 2
  /\ shownDeals # <<>>

\* C12: when the script has been evaluated it has run to its end without an
\* uncaught exception, and favorites is the empty array if "favorites" was
\* absent from localStorage or held text that is not JSON.
C12_StartupNeverFails ==
  lastEvent.op = "script"
    => /\ scriptLoaded /\ ~lastEvent.threw
       /\ (~stored.present \/ ~JSONparse(stored.text).ok)
            => favorites = <<>>

\* the value a metric counts as: 0 when it is absent
Metric(x) == IF x = Absent THEN 0 ELSE x

\* the predicate the claim gives for each filter value
Satisfies(d, f, favs) ==
  CASE f = "best-discount" -> Metric(d.discount) > 50
    [] f = "most-commented" -> Metric(d.commentsCount) > 15
    [] f = "hot-deals" -> Metric(d.temperature) > 100
    [] f = "favorites" -> \E i \in DOMAIN favs : favs[i] = d.uuid
    [] OTHER -> TRUE

\* R is D without the entries that do not satisfy f, in the order of D
IsFilterOf(R, D, f, favs) ==
  LET keep == {i \in DOMAIN D : Satisfies(D[i], f, favs)}
  IN  /\ Len(R) = Cardinality(keep)
      /\ \E pick \in [DOMAIN R -> keep] :
           /\ \A i, j \in DOMAIN R : i < j => pick[i] < pick[j]
           /\ \A i \in DOMAIN R : R[i] = D[pick[i]]

\* C13: applyFilters(D) is the subsequence of D, in the order of D, of
\* exactly the deals that satisfy the predicate of currentFilter (discount
\* > 50, comment count > 15, temperature > 100 with an absent metric as 0,
\* uuid in favorites); it is D for no filter and for an unknown value; the
\* array D is left as it was.
C13_FilterIsSubsequence ==
  call.fn = "applyFilters"
    => /\ IsFilterOf(returned, call.given, call.key, favorites)
       /\ call.key \notin FilterButtons => returned = call.given
       /\ argument = call.given
       /\ currentFilter = call.key

\* three deals were filtered by discount and one passed, a deal with
\* discount 50 and one without discount among those dropped
C13_Witness ==
  /\ call.fn = "applyFilters" /\ call.key = "best-discount"
  /\ Len(call.given) = 3 /\ Len(returned) = 1
  /\ \E i, j \in DOMAIN call.given :
       call.given[i].discount = 50 /\ call.given[j].discount = Absent

\* the claim's order for sort key k: a has to come before b
Precedes(a, b, k) ==
  CASE k = "price-asc" -> Metric(a.price) < Metric(b.price)
    [] k = "price-desc" -> Metric(a.price) > Metric(b.price)
    [] k = "date-asc" -> a.postedAt < b.postedAt
    [] k = "date-desc" -> a.postedAt > b.postedAt
    [] OTHER -> FALSE

\* R is D rearranged: no entry stands before one that has to come before
\* it, and entries neither of which has to come first keep the order of D
IsStableSortOf(R, D, k) ==
  /\ Len(R) = Len(D)
  /\ D # <<>> =>
       \E from \in Permutations(DOMAIN D) :
         /\ \A i \in DOMAIN R : R[i] = D[from[i]]
         /\ \A i, j \in DOMAIN R :
              i < j => /\ ~Precedes(D[from[j]], D[from[i]], k)
                       /\ ~Precedes(D[from[i]], D[from[j]], k)
                            => from[i] < from[j]

\* C14: applySort(D, K) leaves the array D as it was and returns a
\* permutation of D ordered by K in which deals that compare equal keep
\* their order in D; for an unknown K it returns D in its order.
C14_SortIsStablePermutation ==
  call.fn = "applySort"
    => /\ IsStableSortOf(returned, call.given, call.key)
       /\ call.key = "no-such-sort" => returned = call.given
       /\ argument = call.given

\* three deals were sorted by price, two of them with the same price and
\* the third, cheaper, after them in the argument
C14_Witness ==
  /\ call.fn = "applySort" /\ call.key = "price-asc"
  /\ Len(call.given) = 3 /\ returned # call.given
  /\ call.given[1].uuid = "u1" /\ call.given[2].uuid = "u2"
  /\ returned[2].uuid = "u1" /\ returned[3].uuid = "u2"

\* the all-zero record; avg is the fraction 0/1
ZeroStats ==
  [count |-> 0, p5 |-> 0, p25 |-> 0, p50 |-> 0,
   avg |-> [num |-> 0, den |-> 1], lifetime |-> 0]

\* P holds the prices of the sales S in ascending order, the missing ones
\* last
IsAscendingPricesOf(P, S) ==
  /\ Len(P) = Len(S)
  /\ \E from \in Permutations(DOMAIN S) :
       \A i \in DOMAIN S : P[i] = S[from[i]].price
  /\ \A i, j \in DOMAIN P :
       i < j => \/ P[j] = Absent
                \/ (P[i] # Absent /\ P[i] <= P[j])

\* the price at index floor(hundredths/100 * n) of P, 0 for a missing one
PriceAt(P, hundredths) ==
  LET v == P[(hundredths * Len(P)) \div 100 + 1]
  IN  IF v = Absent THEN 0 ELSE v

\* C15: computeSalesStats returns the all-zero record for no sales; for n
\* sales it returns count n and p5, p25, p50 the prices at the indices
\* floor(0.05 n), floor(0.25 n), floor(0.50 n) of the ascending price list
\* (0 for a price of 0 or a missing one); the prices 10, 20, 30, 40, 50 give
\* count 5, p5 10, p25 20, p50 30, avg 30; one sale gives its price thrice.
C15_StatsArePercentiles ==
  call.fn = "computeSalesStats"
    => LET S == call.given
           prices == [i \in DOMAIN S |-> S[i].price]
       IN  /\ S = <<>> => returned = ZeroStats
           /\ S # <<>> =>
                /\ returned.count = Len(S)
                /\ \E from \in Permutations(DOMAIN S) :
                     LET P == [i \in DOMAIN S |-> S[from[i]].price]
                     IN  /\ IsAscendingPricesOf(P, S)
                         /\ returned.p5 = PriceAt(P, 5)
                         /\ returned.p25 = PriceAt(P, 25)
                         /\ returned.p50 = PriceAt(P, 50)
           /\ Range(prices) = {10, 20, 30, 40, 50} /\ Len(S) = 5 =>
                /\ returned.count = 5 /\ returned.p5 = 10
                /\ returned.p25 = 20 /\ returned.p50 = 30
                /\ returned.avg.den # 0
                /\ returned.avg.num = 30 * returned.avg.den
           /\ Len(S) = 1 =>
                /\ returned.p5 = Metric(S[1].price)
                /\ returned.p25 = returned.p5 /\ returned.p50 = returned.p5

\* the statistics of the five sales given out of order
C15_Witness ==
  /\ call.fn = "computeSalesStats" /\ Len(call.given) = 5
  /\ call.given[1].price = 30
  /\ returned.count = 5 /\ returned.p50 = 30

\* the ids of the deals of currentDeals, before any filter
UnfilteredIds == {currentDeals.items[i].id : i \in DOMAIN currentDeals.items}

\* C16: after every call of render the options of #lego-set-id-select after
\* the placeholder are the distinct ids of the whole of currentDeals, each
\* once, and #nbDeals shows currentPagination.count, whatever the filter.
C16_SelectorIsUnfiltered ==
  lastEvent.op \in {"dealsResponse", "filter", "sort", "favorite"}
    => /\ currentDeals.defined /\ currentPagination.defined
       /\ Range(idOptions) = UnfilteredIds
       /\ Len(idOptions) = Cardinality(UnfilteredIds)
       /\ nbDeals = currentPagination.count

LoadPending == \E i \in DOMAIN inflight : inflight[i].kind = "load"

\* the answer to the initial load has just been applied, and was a success
LoadAnswered ==
  lastEvent.op = "dealsResponse" /\ lastEvent.arg = "load" /\ lastEvent.ok

\* the n items and the metadata (page 1, p pages, c items) of that answer
LoadItems == ServerResult(1, 6)
LoadMeta == ServerMeta(1, 6)

\* C17 as stated: the initial load issues one deals request for page 1 and
\* size 6 and, once it has succeeded with n items, the page comes to show n
\* deal entries, p page options with the first selected and the count c.
C17_LoadShowsAllItems ==
  /\ [][lastEvent'.op = "load"
          => inflight' = Append(inflight, Request("load", 1, 6, NoId))]_vars
  /\ LoadAnswered
       ~> /\ Len(shownDeals) = Len(LoadItems)
          /\ pageOptions = LoadMeta.pageCount /\ pageSelectedIndex = 0
          /\ nbDeals = LoadMeta.count

\* C17 amended: DOMContentLoaded issues one deals request for page 1 and
\* size 6 and never a second one; the request is answered; and once it has
\* succeeded the page comes to show the entries of those of the n items
\* that pass the filter active then (all n when no filter button has been
\* pressed), p page options with the first selected and the count c.
C17_LoadShowsFilteredItems ==
  /\ [][lastEvent'.op = "load"
          => /\ ~domLoaded
             /\ inflight' = Append(inflight, Request("load", 1, 6, NoId))]_vars
  /\ LoadPending ~> ~LoadPending
  /\ LoadAnswered
       ~> LET keep == {i \in DOMAIN LoadItems :
                        Satisfies(LoadItems[i], currentFilter, favorites)}
          IN  /\ Range(ShownList) = {LoadItems[i] : i \in keep}
              /\ Len(shownDeals) = Cardinality(keep)
              /\ currentFilter = NoFilter
                   => Len(shownDeals) = Len(LoadItems)
              /\ pageOptions = LoadMeta.pageCount /\ pageSelectedIndex = 0
              /\ nbDeals = LoadMeta.count

\* the initial load has succeeded after a filter button was pressed, and
\* one of its two items is shown
C17_Witness ==
  /\ LoadAnswered /\ currentFilter = "best-discount"
  /\ Len(LoadItems) = 2 /\ Len(shownDeals) = 1
  /\ pageOptions = 1 /\ pageSelectedIndex = 0 /\ nbDeals = 2

\* the page and the size of the data held; page 1 and size 6 before any
\* data is held
HeldPage ==
  IF currentPagination.defined /\ currentPagination.currentPage # Absent
  THEN currentPagination.currentPage ELSE 1
HeldSize ==
  IF currentPagination.defined /\ currentPagination.pageSize # Absent
  THEN currentPagination.pageSize ELSE 6

\* C18: every change of #show-select issues one deals request for the page
\* of the data held and the size chosen, and every change of #page-select
\* one deals request for the page chosen and the size of the data held,
\* whatever is still pending.
C18_ChangeIssuesOneRequest ==
  [][/\ lastEvent'.op = "show"
          => \E size \in Sizes :
               inflight' = Append(inflight,
                                  Request("show", HeldPage, size, NoId))
     /\ lastEvent'.op = "page"
          => inflight' = Append(inflight,
                                Request("page", pageSelectedIndex' + 1,
                                        HeldSize, NoId))]_vars

SalesPending == \E i \in DOMAIN inflight : inflight[i].kind = "sales"

\* C19: with no sales request pending, the sales panel lists no sale when
\* the placeholder option of #lego-set-id-select is selected, and otherwise
\* the sales of the selected id (none if their fetch failed).
C19_PanelIsOfSelectedId ==
  ~SalesPending
    => /\ idSelected = NoId
            => (salesPanel.list = <<>> /\ salesPanel.nbSales = 0)
       /\ idSelected # NoId
            => salesPanel.list \in {ServerSales(idSelected), <<>>}

NoDuplicates(s) == \A i, j \in DOMAIN s : i # j => s[i] # s[j]

\* the favorites array has no duplicates and holds the ids toggled an odd
\* number of times if they were not in it at startup, an even number of
\* times if they were
FavoritesAreParity ==
  /\ NoDuplicates(favorites)
  /\ \A u \in Uuids :
       Includes(favorites, u)
         <=> (Includes(toggles.startup, u) # (u \in toggles.odd))

\* the star painted for each deal tells whether its uuid is in favorites
StarsAreMembership ==
  \A i \in DOMAIN shownDeals :
    shownDeals[i].star <=> Includes(favorites, shownDeals[i].deal.uuid)

\* C20: if the favorites array read at startup has no duplicates, then after
\* any toggles it has none, an id is in it exactly when the parity of its
\* toggles says so, and the star of every painted deal agrees with it.
C20_StarsFollowToggles ==
  (toggles.counted /\ NoDuplicates(toggles.startup))
    => (FavoritesAreParity /\ StarsAreMembership)

=============================================================================
